---- MODULE Spec2Model ----
(***************************************************************************)
(* The chunk-level deduplication core of backend/server.js: the /upload    *)
(* handler (stream callbacks, fixed-size chunking, per-chunk digest,       *)
(* ensureChunkStored, putFileManifest) running for several concurrent      *)
(* requests against one DynamoDB chunks table, one S3 bucket and one       *)
(* DynamoDB files table.                                                   *)
(*                                                                         *)
(* One action is one run of JavaScript between two suspension points: an   *)
(* event callback up to its first await, or the continuation of an await   *)
(* up to the next one.  The store call that the await was waiting for      *)
(* takes effect atomically in the action of its continuation.              *)
(*                                                                         *)
(* Scaling: CHUNK_SIZE is 5 MiB in the source and 2 bytes here; a byte is  *)
(* one of two values.  SHA-256 is modelled as a collision-free encoding.   *)
(***************************************************************************)
EXTENDS Integers, Sequences, FiniteSets, TLC

\* server.js:20 (5 * 1024 * 1024 in the source, scaled)
CHUNK_SIZE == 2

\* number of upload requests, numbered in order of arrival
NumUploads == 2
\* longest file of SpecStream, in bytes
MaxLen == 5
\* largest fragment one 'data' event delivers, in bytes
MaxFrag == 3

Uploads == 1..NumUploads
Byte == {1, 2}

VARIABLES
  file,         \* req.file of each request: the multer temp file, or none
  up,           \* per request: the closure of the /upload handler
  chunksTable,  \* DynamoDB table CHUNKS_TABLE, a set of items keyed by hash
  bucket,       \* S3 bucket BUCKET_NAME, a set of objects keyed by Key
  filesTable,   \* DynamoDB table FILES_TABLE, a set of items keyed by fileId
  now,          \* the clock read by new Date()
  uuidCount     \* number of UUIDs crypto.randomUUID() has handed out

vars == <<file, up, chunksTable, bucket, filesTable, now, uuidCount>>

----------------------------------------------------------------------------
(* Pure helpers *)

Min(a, b) == IF a < b THEN a ELSE b

\* Buffer.subarray(start, end): bytes start..end-1 (0-based, end exclusive)
subarray(buf, start, end) ==
  IF start >= Min(end, Len(buf)) THEN <<>>
  ELSE SubSeq(buf, start + 1, Min(end, Len(buf)))

\* crypto.createHash('sha256').update(buf).digest('hex'): deterministic and
\* collision-free; the digest is the bijective base-3 numeral of the bytes.
RECURSIVE sha256Hex(_)
sha256Hex(buf) ==
  IF buf = <<>> THEN 0
  ELSE Head(buf) + (Cardinality(Byte) + 1) * sha256Hex(Tail(buf))

\* `chunks/${chunkHash}`
s3KeyOf(chunkHash) == <<"chunks/", chunkHash>>

\* DynamoDB PutItem without a condition: creates the item or replaces the
\* item that has the same primary key.
PutItemCommand(table, keyName, item) ==
  {i \in table : i[keyName] # item[keyName]} \cup {item}

\* DynamoDB GetItem by primary key: the items found (none or one).
GetItemCommand(table, keyName, key) == {i \in table : i[keyName] = key}

\* S3 PutObject: creates or overwrites the object under Key.
PutObjectCommand(objects, obj) ==
  {o \in objects : o.Key # obj.Key} \cup {obj}

\* crypto.randomUUID(): a value never handed out before
randomUUID == uuidCount + 1

----------------------------------------------------------------------------
(* Requests *)

NoFile == [present |-> FALSE, originalname |-> "", bytes |-> <<>>]
FileOf(b) == [present |-> TRUE, originalname |-> "upload.bin", bytes |-> b]

\* every byte string of at most MaxLen bytes
AllContents == UNION {[1..n -> Byte] : n \in 0..MaxLen}

\* the files the concurrent requests of Spec carry: an empty file, a file of
\* two equal chunks, and two files that share their first chunk and differ
\* in the tail
Files == {<<>>, <<1, 2, 1, 2>>, <<1, 2, 2>>, <<1, 2, 1>>}

NoItem == [hash |-> -1, size |-> 0, s3Key |-> <<>>, createdAt |-> -1]
NoManifest ==
  [fileId |-> 0, fileName |-> "", size |-> 0, uploadDate |-> -1,
   contentHash |-> -1, chunkHashes |-> <<>>]
NoResponse ==
  [status |-> 0, fileId |-> 0, size |-> 0, chunks |-> 0,
   uploadedNewChunks |-> 0, reusedChunks |-> 0]

\* the closure of one /upload request before the request arrives
InitUp ==
  [pc |-> "idle",            \* where the request's code is suspended
   handler |-> "none",       \* the stream callback that is running
   rs |-> "none",            \* readStream: flowing, paused, ended, destroyed
   pos |-> 0,                \* bytes of the file the stream has delivered
   promise |-> "none",       \* the promise around the stream callbacks
   fileId |-> 0,
   fileName |-> "",
   uploadedNewChunks |-> 0,
   reusedChunks |-> 0,
   buffered |-> <<>>,
   chunkHashes |-> <<>>,
   contentHasher |-> <<>>,   \* bytes fed to contentHasher.update
   totalBytes |-> 0,
   chunk |-> <<>>,           \* arguments of the running ensureChunkStored
   chunkHash |-> -1,
   item |-> NoItem,          \* the item of the PutItemCommand being sent
   manifest |-> NoManifest,  \* the item putFileManifest is sending
   res |-> NoResponse,       \* the HTTP response (status 0: none yet)
   \* history, not program state:
   h_after |-> {},           \* requests answered 200 before this one arrived
   h_chunks |-> <<>>,        \* chunks handed to ensureChunkStored, in order
   h_gets |-> 0,             \* GetItem calls on the chunks table
   h_s3puts |-> 0,           \* successful PutObject calls
   h_inserted |-> {},        \* digests whose ChunkRecord this request created
   h_conflict |-> {},        \* digests whose conditional insert was rejected
   h_indexError |-> FALSE,   \* a PutItem on the chunks table failed otherwise
   h_failed |-> "none"]      \* the first failure that rejected the promise

InitStores ==
  /\ up = [u \in Uploads |-> InitUp]
  /\ chunksTable = {}
  /\ bucket = {}
  /\ filesTable = {}
  /\ now = 0
  /\ uuidCount = 0

Init ==
  /\ file \in [Uploads -> {NoFile} \cup {FileOf(b) : b \in Files}]
  /\ InitStores

InitStream ==
  /\ file \in {[u \in Uploads |-> IF u = 1 THEN FileOf(b) ELSE NoFile] :
                 b \in AllContents}
  /\ InitStores

----------------------------------------------------------------------------
(* The /upload handler, as transformers of one request's closure s *)

\* reject(e) of the promise, and with it the catch block of the handler
\* (server.js:168-172): a settled promise ignores it.
Reject(s, why) ==
  IF s.promise = "pending"
  THEN [s EXCEPT !.promise = "rejected",
                 !.res = [NoResponse EXCEPT !.status = 500],
                 !.h_failed = why]
  ELSE s

\* HandlerCatch with an empty catch block: the exception is dropped
HandlerCatch_noReject(s, why) ==
  [s EXCEPT !.pc = "done", !.handler = "none"]

\* catch (e) { reject(e); } of a stream callback: the callback is over; in
\* the data callback the stream is left as it is (paused).
HandlerCatch(s, why) ==
  Reject([s EXCEPT !.pc = "done", !.handler = "none"], why)

\* readStream.resume(): a paused stream flows again; a destroyed one does not
Resume(s) ==
  [s EXCEPT !.rs = IF @ = "paused" THEN "flowing" ELSE @]

\* the end of a stream callback: the code waits for the next stream event,
\* if the stream can still emit one
HandlerReturn(s) ==
  [s EXCEPT !.handler = "none",
            !.pc = IF s.rs = "flowing" THEN "stream" ELSE "done"]

\* ensureChunkStored(chunkHash, chunk) up to its first await: the GetItem
EnsureCall(s, chunk) ==
  [s EXCEPT !.chunk = chunk,
            !.chunkHash = sha256Hex(chunk),
            !.pc = "get",
            !.h_chunks = Append(@, chunk)]

\* DataLoop with the rest of the buffer taken one byte too far
DataLoop_offByOne(s) ==
  IF Len(s.buffered) >= CHUNK_SIZE
  THEN EnsureCall([s EXCEPT !.buffered = subarray(@, CHUNK_SIZE + 1, Len(@))],
                  subarray(s.buffered, 0, CHUNK_SIZE))
  ELSE HandlerReturn(Resume(s))

\* while (buffered.length >= CHUNK_SIZE) { ... } readStream.resume()
DataLoop(s) ==
  IF Len(s.buffered) >= CHUNK_SIZE
  THEN EnsureCall([s EXCEPT !.buffered = subarray(@, CHUNK_SIZE, Len(@))],
                  subarray(s.buffered, 0, CHUNK_SIZE))
  ELSE HandlerReturn(Resume(s))

\* ManifestCall with the manifest keyed by its content digest
ManifestCall_keyedByContent(s, t) ==
  [s EXCEPT !.pc = "manifest",
            !.handler = "none",
            !.manifest =
               [fileId |-> sha256Hex(s.contentHasher),
                fileName |-> s.fileName,
                size |-> s.totalBytes,
                uploadDate |-> t,
                contentHash |-> sha256Hex(s.contentHasher),
                chunkHashes |-> s.chunkHashes]]

\* contentHasher.digest('hex') and putFileManifest up to its await
ManifestCall(s, t) ==
  [s EXCEPT !.pc = "manifest",
            !.handler = "none",
            !.manifest =
               [fileId |-> s.fileId,
                fileName |-> s.fileName,
                size |-> s.totalBytes,
                uploadDate |-> t,
                contentHash |-> sha256Hex(s.contentHasher),
                chunkHashes |-> s.chunkHashes]]

\* resolve() of the promise and, when it settles the promise, the code
\* after the await up to the next one
Resolve(s, t) ==
  IF s.promise = "pending"
  THEN ManifestCall([s EXCEPT !.promise = "resolved"], t)
  ELSE [s EXCEPT !.pc = "done", !.handler = "none"]

\* Account with every chunk counted as new
Account_alwaysNew(s, existed) ==
  [s EXCEPT !.uploadedNewChunks = @ + 1]

\* if (existed) reusedChunks++; else uploadedNewChunks++;
Account(s, existed) ==
  [s EXCEPT !.reusedChunks = IF existed THEN @ + 1 ELSE @,
            !.uploadedNewChunks = IF existed THEN @ ELSE @ + 1]

\* chunkHashes.push(chunkHash)
PushHash(s) == [s EXCEPT !.chunkHashes = Append(@, s.chunkHash)]

\* AfterEnsure with the digest pushed only for a chunk that was new
AfterEnsure_pushOnlyNew(s, existed, t) ==
  LET s1 == IF existed THEN Account(s, existed)
            ELSE PushHash(Account(s, existed))
  IN IF s.handler = "data" THEN DataLoop(s1) ELSE Resolve(s1, t)

\* the code after `await ensureChunkStored(...)` in either callback
AfterEnsure(s, existed, t) ==
  LET s1 == PushHash(Account(s, existed))
  IN IF s.handler = "data" THEN DataLoop(s1) ELSE Resolve(s1, t)

\* DataBegin with the fragment replacing the buffer instead of joining it
DataBegin_replaceBuffer(s, data) ==
  [s EXCEPT !.rs = "paused",
            !.handler = "data",
            !.contentHasher = @ \o data,
            !.totalBytes = @ + Len(data),
            !.buffered = data]

\* DataBegin with the whole buffer fed to the hasher instead of the fragment
DataBegin_hashBuffered(s, data) ==
  [s EXCEPT !.rs = "paused",
            !.handler = "data",
            !.contentHasher = @ \o (s.buffered \o data),
            !.totalBytes = @ + Len(data),
            !.buffered = @ \o data]

\* DataBegin without readStream.pause()
DataBegin_noPause(s, data) ==
  [s EXCEPT !.handler = "data",
            !.contentHasher = @ \o data,
            !.totalBytes = @ + Len(data),
            !.buffered = @ \o data]

\* the data callback up to its loop
DataBegin(s, data) ==
  [s EXCEPT !.rs = "paused",
            !.handler = "data",
            !.contentHasher = @ \o data,
            !.totalBytes = @ + Len(data),
            !.buffered = @ \o data]

\* EndHandler without the test for an empty remainder
EndHandler_noGuard(s, t) == EnsureCall(s, s.buffered)

\* the end callback
EndHandler(s, t) ==
  IF Len(s.buffered) > 0
  THEN EnsureCall(s, s.buffered)
  ELSE Resolve(s, t)

\* the PutItemCommand of ensureChunkStored, with
\* ConditionExpression 'attribute_not_exists(hash)'
ChunkItem(s, t) ==
  [hash |-> s.chunkHash,
   size |-> Len(s.chunk),
   s3Key |-> s3KeyOf(s.chunkHash),
   createdAt |-> t]

\* ConditionalPut without the ConditionExpression
ConditionalPut_unconditional(table, item) ==
  [table |-> PutItemCommand(table, "hash", item), thrown |-> "none"]

ConditionalPut(table, item) ==
  IF GetItemCommand(table, "hash", item.hash) # {}
  THEN [table |-> table, thrown |-> "ConditionalCheckFailedException"]
  ELSE [table |-> PutItemCommand(table, "hash", item), thrown |-> "none"]

\* catch (_) { } around the PutItemCommand: what it lets through
Rethrown(thrown) == FALSE

\* the JSON body of res.status(200)
SuccessResponse(s) ==
  [status |-> 200,
   fileId |-> s.fileId,
   size |-> s.totalBytes,
   chunks |-> Len(s.chunkHashes),
   uploadedNewChunks |-> s.uploadedNewChunks,
   reusedChunks |-> s.reusedChunks]

\* the catch block of the handler, entered from code after the promise
UploadCatch(s, why) ==
  [s EXCEPT !.pc = "done",
            !.res = [NoResponse EXCEPT !.status = 500],
            !.h_failed = why]

\* AfterManifest with the cleanup outside a try: its failure reaches the catch
AfterManifest_unguardedCleanup(s, unlink) ==
  IF unlink = "error" THEN UploadCatch(s, "cleanup")
  ELSE [s EXCEPT !.pc = "done", !.res = SuccessResponse(s)]

\* try { fs.unlinkSync(file.path); } catch (_) {} and res.status(200).json:
\* a failed cleanup is ignored
AfterManifest(s, unlink) ==
  [s EXCEPT !.pc = "done", !.res = SuccessResponse(s)]

\* new Date() was read by the step that led to s2
Clock(s1, s2) ==
  IF s2.pc # s1.pc /\ s2.pc \in {"put", "manifest"} THEN now + 1 ELSE now

----------------------------------------------------------------------------
(* Actions *)

\* app.post('/upload'): the request arrives
StartUpload(u) ==
  /\ up[u].pc = "idle"
  /\ \A v \in Uploads : v < u => up[v].pc # "idle"
  /\ IF ~file[u].present
     THEN /\ up' = [up EXCEPT ![u].pc = "done",
                              ![u].res = [NoResponse EXCEPT !.status = 400]]
          /\ UNCHANGED uuidCount
     ELSE /\ up' = [up EXCEPT ![u].pc = "stream",
                              ![u].h_after =
                                 {v \in Uploads : up[v].res.status = 200},
                              ![u].fileId = randomUUID,
                              ![u].fileName = file[u].originalname,
                              ![u].rs = "flowing",
                              ![u].promise = "pending"]
          /\ uuidCount' = uuidCount + 1
  /\ UNCHANGED <<file, chunksTable, bucket, filesTable, now>>

\* readStream emits 'data' with the next n bytes of the file
OnData(u) ==
  /\ up[u].rs = "flowing"
  /\ up[u].pos < Len(file[u].bytes)
  /\ \E n \in 1..Min(MaxFrag, Len(file[u].bytes) - up[u].pos) :
       LET data == SubSeq(file[u].bytes, up[u].pos + 1, up[u].pos + n)
           s1 == [up[u] EXCEPT !.pos = @ + n]
       IN up' = [up EXCEPT ![u] = DataLoop(DataBegin(s1, data))]
  /\ UNCHANGED <<file, chunksTable, bucket, filesTable, now, uuidCount>>

\* readStream emits 'end' after the last byte
OnEnd(u) ==
  /\ up[u].rs = "flowing"
  /\ up[u].pos = Len(file[u].bytes)
  /\ LET s1 == [up[u] EXCEPT !.rs = "ended", !.handler = "end"]
         s2 == EndHandler(s1, now)
     IN /\ up' = [up EXCEPT ![u] = s2]
        /\ now' = Clock(up[u], s2)
  /\ UNCHANGED <<file, chunksTable, bucket, filesTable, uuidCount>>

\* readStream emits 'error' (a failed read of the temp file); the stream is
\* destroyed and emits nothing more.  It can happen while the data callback
\* is suspended in an await: the stream reads ahead while paused.
StreamError(u) ==
  /\ up[u].rs \in {"flowing", "paused"}
  /\ LET s1 == [up[u] EXCEPT !.rs = "destroyed",
                             !.pc = IF @ = "stream" THEN "done" ELSE @]
     IN up' = [up EXCEPT ![u] = Reject(s1, "stream read")]
  /\ UNCHANGED <<file, chunksTable, bucket, filesTable, now, uuidCount>>

\* GetItem without `if (existing.Item) return { existed: true }`
GetItem_noFastPath(u) ==
  /\ up[u].pc = "get"
  /\ \E outcome \in {"ok", "error"} :
       LET s1 == [up[u] EXCEPT !.h_gets = @ + 1]
           s2 == IF outcome = "error" THEN HandlerCatch(s1, "index read")
                 ELSE [s1 EXCEPT !.pc = "s3"]
       IN /\ up' = [up EXCEPT ![u] = s2]
          /\ now' = Clock(up[u], s2)
  /\ UNCHANGED <<file, chunksTable, bucket, filesTable, uuidCount>>

\* ensureChunkStored: the GetItemCommand returns or throws
GetItem(u) ==
  /\ up[u].pc = "get"
  /\ \E outcome \in {"ok", "error"} :
       LET s1 == [up[u] EXCEPT !.h_gets = @ + 1]
           existing == GetItemCommand(chunksTable, "hash", s1.chunkHash)
           s2 == IF outcome = "error" THEN HandlerCatch(s1, "index read")
                 ELSE IF existing # {} THEN AfterEnsure(s1, TRUE, now)
                 ELSE [s1 EXCEPT !.pc = "s3"]
       IN /\ up' = [up EXCEPT ![u] = s2]
          /\ now' = Clock(up[u], s2)
  /\ UNCHANGED <<file, chunksTable, bucket, filesTable, uuidCount>>

\* S3Put with the PutItem sent although the PutObject threw
S3Put_errorIgnored(u) ==
  /\ up[u].pc = "s3"
  /\ \E outcome \in {"ok", "error"} :
       LET s1 == up[u]
           obj == [Key |-> s3KeyOf(s1.chunkHash), Body |-> s1.chunk]
           s2 == [s1 EXCEPT !.pc = "put",
                            !.item = ChunkItem(s1, now),
                            !.h_s3puts = IF outcome = "ok" THEN @ + 1 ELSE @]
       IN /\ up' = [up EXCEPT ![u] = s2]
          /\ bucket' = IF outcome = "error" THEN bucket
                       ELSE PutObjectCommand(bucket, obj)
          /\ now' = Clock(up[u], s2)
  /\ UNCHANGED <<file, chunksTable, filesTable, uuidCount>>

\* ensureChunkStored: the PutObjectCommand returns or throws
S3Put(u) ==
  /\ up[u].pc = "s3"
  /\ \E outcome \in {"ok", "error"} :
       LET s1 == up[u]
           obj == [Key |-> s3KeyOf(s1.chunkHash), Body |-> s1.chunk]
           s2 == IF outcome = "error" THEN HandlerCatch(s1, "store write")
                 ELSE [s1 EXCEPT !.pc = "put",
                                 !.item = ChunkItem(s1, now),
                                 !.h_s3puts = @ + 1]
       IN /\ up' = [up EXCEPT ![u] = s2]
          /\ bucket' = IF outcome = "error" THEN bucket
                       ELSE PutObjectCommand(bucket, obj)
          /\ now' = Clock(up[u], s2)
  /\ UNCHANGED <<file, chunksTable, filesTable, uuidCount>>

\* ensureChunkStored: the conditional PutItemCommand returns or throws
PutItem(u) ==
  /\ up[u].pc = "put"
  /\ \E outcome \in {"ok", "error"} :
       LET s1 == up[u]
           put == IF outcome = "error"
                  THEN [table |-> chunksTable, thrown |-> "InternalServerError"]
                  ELSE ConditionalPut(chunksTable, s1.item)
           s2 == [s1 EXCEPT
                    !.h_inserted =
                       IF put.thrown = "none" THEN @ \cup {s1.chunkHash} ELSE @,
                    !.h_conflict =
                       IF put.thrown = "ConditionalCheckFailedException"
                       THEN @ \cup {s1.chunkHash} ELSE @,
                    !.h_indexError =
                       @ \/ put.thrown = "InternalServerError"]
           s3 == IF put.thrown # "none" /\ Rethrown(put.thrown)
                 THEN HandlerCatch(s2, "index write")
                 ELSE AfterEnsure(s2, FALSE, now)
       IN /\ up' = [up EXCEPT ![u] = s3]
          /\ chunksTable' = put.table
          /\ now' = Clock(up[u], s3)
  /\ UNCHANGED <<file, bucket, filesTable, uuidCount>>

\* putFileManifest: the PutItemCommand returns or throws; then the cleanup of
\* the temp file and the response
ManifestPut(u) ==
  /\ up[u].pc = "manifest"
  /\ \E outcome \in {"ok", "error"}, unlink \in {"ok", "error"} :
       LET s1 == up[u]
       IN /\ filesTable' = IF outcome = "ok"
                           THEN PutItemCommand(filesTable, "fileId", s1.manifest)
                           ELSE filesTable
          /\ up' = [up EXCEPT ![u] = IF outcome = "ok"
                                     THEN AfterManifest(s1, unlink)
                                     ELSE UploadCatch(s1, "manifest write")]
  /\ UNCHANGED <<file, chunksTable, bucket, now, uuidCount>>

Next ==
  \E u \in Uploads :
    \/ StartUpload(u)
    \/ OnData(u)
    \/ OnEnd(u)
    \/ StreamError(u)
    \/ GetItem(u)
    \/ S3Put(u)
    \/ PutItem(u)
    \/ ManifestPut(u)

\* concurrent requests carrying the files of Files
Spec == Init /\ [][Next]_vars

\* one request carrying any file of at most MaxLen bytes
SpecStream == InitStream /\ [][Next]_vars

\* Spec with every pending call returning or throwing in the end, and a
\* flowing stream delivering its next 'data' or its 'end' in the end unless
\* it fails; nothing obliges a read of the temp file to fail.
SpecFair ==
  /\ Init
  /\ [][Next]_vars
  /\ \A u \in Uploads :
       /\ WF_vars(OnData(u) \/ OnEnd(u))
       /\ WF_vars(GetItem(u))
       /\ WF_vars(S3Put(u))
       /\ WF_vars(PutItem(u))
       /\ WF_vars(ManifestPut(u))

----------------------------------------------------------------------------
(* Vocabulary of the properties *)

Range(f) == {f[i] : i \in DOMAIN f}

\* the fixed-size split of a byte string: a function of the bytes alone
RECURSIVE FixedChunks(_)
FixedChunks(b) ==
  IF b = <<>> THEN <<>>
  ELSE <<SubSeq(b, 1, Min(CHUNK_SIZE, Len(b)))>>
         \o FixedChunks(SubSeq(b, Min(CHUNK_SIZE, Len(b)) + 1, Len(b)))

RefDigests(b) ==
  [i \in 1..Len(FixedChunks(b)) |-> sha256Hex(FixedChunks(b)[i])]

WithFile == {u \in Uploads : file[u].present}
AllDone == \A u \in Uploads : up[u].pc = "done"
Succeeded(u) == up[u].res.status = 200
Failed(u) == up[u].res.status = 500

\* an I/O call of request u failed (stream, index, store or manifest)
IOFault(u) ==
  \/ up[u].h_indexError
  \/ up[u].h_failed \in {"stream read", "index read", "store write",
                         "manifest write"}
NoIOFault == \A u \in Uploads : ~IOFault(u)

RecordsOf(d) == {i \in chunksTable : i.hash = d}
ManifestsOf(id) == {m \in filesTable : m.fileId = id}

----------------------------------------------------------------------------
(* C1: when every request that carries a file carries the same bytes, the  *)
(* index starts empty, no I/O call fails and all requests are over, under  *)
(* whatever interleaving, the chunks table holds exactly one item for each *)
(* distinct chunk digest of those bytes (and no other), and the files      *)
(* table holds one manifest per request, each with the same digest list.   *)
C1_ConcurrentSameContent ==
  (/\ WithFile # {}
   /\ AllDone
   /\ NoIOFault
   /\ \A u, v \in WithFile : file[u].bytes = file[v].bytes)
  => LET b == file[CHOOSE u \in WithFile : TRUE].bytes
     IN /\ \A d \in Range(RefDigests(b)) : Cardinality(RecordsOf(d)) = 1
        /\ {i.hash : i \in chunksTable} = Range(RefDigests(b))
        /\ Cardinality(filesTable) = Cardinality(WithFile)
        /\ \A m \in filesTable : m.chunkHashes = RefDigests(b)
        /\ \A m1, m2 \in filesTable : m1.chunkHashes = m2.chunkHashes

\* two requests with the same two-chunk file raced on a digest and are over
C1_Witness ==
  /\ \A u \in Uploads : file[u].bytes = <<1, 2, 1, 2>> /\ Succeeded(u)
  /\ AllDone
  /\ NoIOFault
  /\ \E u \in Uploads : up[u].h_conflict # {}

----------------------------------------------------------------------------
(* C2: a request answered with a failure (500) never has a manifest under  *)
(* its fileId in the files table, in any reachable state.                  *)
C2_NoManifestForFailedUpload ==
  \A u \in Uploads : Failed(u) => ManifestsOf(up[u].fileId) = {}

\* one request failed on its manifest write after processing two chunks,
\* the other by a stream error after it had processed a chunk
C2_Witness ==
  \E u, v \in Uploads :
    /\ Failed(u) /\ up[u].h_failed = "manifest write"
    /\ Len(up[u].chunkHashes) >= 2
    /\ Failed(v) /\ up[v].h_failed = "stream read"
    /\ Len(up[v].chunkHashes) >= 1

(* C3: once a request is over, a failure of its PutItem on the chunks      *)
(* table other than the conditional-check conflict has surfaced as a       *)
(* failure response.                                                       *)
C3_IndexWriteFailureSurfaces ==
  \A u \in Uploads :
    (up[u].pc = "done" /\ up[u].h_indexError) => Failed(u)

(* C4: when request v arrives after request u was answered 200 and both    *)
(* carry the same bytes, then once v is answered 200 the two manifests     *)
(* have equal digest lists and content digests and different fileIds, and  *)
(* v reports reusedChunks = chunks and uploadedNewChunks = 0.              *)
C4_Idempotence ==
  \A u, v \in WithFile :
    (/\ u \in up[v].h_after
     /\ file[u].bytes = file[v].bytes
     /\ Succeeded(v))
    => /\ up[u].fileId # up[v].fileId
       /\ \A mu \in ManifestsOf(up[u].fileId), mv \in ManifestsOf(up[v].fileId) :
            /\ mu.chunkHashes = mv.chunkHashes
            /\ mu.contentHash = mv.contentHash
       /\ ManifestsOf(up[u].fileId) # {} /\ ManifestsOf(up[v].fileId) # {}
       /\ up[v].res.reusedChunks = up[v].res.chunks
       /\ up[v].res.uploadedNewChunks = 0

RECURSIVE SumLen(_)
SumLen(chunks) ==
  IF chunks = <<>> THEN 0 ELSE Len(Head(chunks)) + SumLen(Tail(chunks))

(* C5: of the chunks a request hands to ensureChunkStored, in order, each  *)
(* has 1..CHUNK_SIZE bytes, each but the last has exactly CHUNK_SIZE, the  *)
(* data callback hands over full chunks only, and once the end callback    *)
(* has resolved the promise their lengths sum to the length of the stream. *)
C5_ChunkLengths ==
  \A u \in WithFile :
    LET c == up[u].h_chunks
    IN /\ \A i \in 1..Len(c) : Len(c[i]) \in 1..CHUNK_SIZE
       /\ \A i \in 1..(Len(c) - 1) : Len(c[i]) = CHUNK_SIZE
       /\ up[u].rs # "ended" => \A i \in 1..Len(c) : Len(c[i]) = CHUNK_SIZE
       /\ up[u].promise = "resolved"
            => /\ SumLen(c) = Len(file[u].bytes)
               /\ SumLen(c) = up[u].totalBytes

\* a stream of two full chunks and a short tail was processed to its end
C5_Witness ==
  \E u \in WithFile :
    /\ up[u].promise = "resolved"
    /\ Len(up[u].h_chunks) = 3
    /\ Len(up[u].h_chunks[3]) < CHUNK_SIZE

(* C6: however the stream is cut into fragments, the chunks handed over    *)
(* and the digests listed are, at every moment, the leading ones of the    *)
(* fixed-size split of the file's bytes, and all of them once the promise  *)
(* is resolved: a function of the bytes alone, so two deliveries of the    *)
(* same bytes give the same digest list.                                   *)
C6_FragmentIndependence ==
  \A u \in WithFile :
    LET ref == FixedChunks(file[u].bytes)
    IN /\ Len(up[u].h_chunks) <= Len(ref)
       /\ \A i \in 1..Len(up[u].h_chunks) : up[u].h_chunks[i] = ref[i]
       /\ Len(up[u].chunkHashes) <= Len(up[u].h_chunks)
       /\ \A i \in 1..Len(up[u].chunkHashes) :
            up[u].chunkHashes[i] = sha256Hex(ref[i])
       /\ up[u].promise = "resolved"
            => up[u].manifest.chunkHashes = RefDigests(file[u].bytes)

\* a fragment longer than CHUNK_SIZE arrived across a chunk boundary: the
\* data callback holds a second full chunk while it stores the first
C6_Witness ==
  \E u \in WithFile :
    /\ up[u].handler = "data"
    /\ up[u].pc = "get"
    /\ Len(up[u].buffered) = CHUNK_SIZE
    /\ up[u].pos = 2 * CHUNK_SIZE

\* the stored blob of a digest
BlobsOf(d) == {o \in bucket : o.Key = s3KeyOf(d)}

RECURSIVE SumBlobLen(_)
SumBlobLen(hashes) ==
  IF hashes = <<>> THEN 0
  ELSE Len((CHOOSE o \in BlobsOf(Head(hashes)) : TRUE).Body)
         + SumBlobLen(Tail(hashes))

(* C7: every manifest in the files table belongs to one request; its size  *)
(* is the length of that request's stream and the sum of the lengths of    *)
(* the stored chunks its list names, and its contentHash is the digest of  *)
(* the whole stream.                                                       *)
C7_ManifestConsistent ==
  \A m \in filesTable :
    \E u \in WithFile :
      /\ up[u].fileId = m.fileId
      /\ m.size = Len(file[u].bytes)
      /\ \A i \in 1..Len(m.chunkHashes) : BlobsOf(m.chunkHashes[i]) # {}
      /\ m.size = SumBlobLen(m.chunkHashes)
      /\ m.contentHash = sha256Hex(file[u].bytes)

\* a manifest of three chunks is persisted
C7_Witness ==
  \E m \in filesTable : Len(m.chunkHashes) = 3 /\ m.size = 2 * CHUNK_SIZE + 1

(* C8: the files table holds exactly one manifest per request answered     *)
(* 200, under that request's fileId, and no two requests share a fileId.   *)
C8_OneManifestPerUpload ==
  /\ Cardinality(filesTable) = Cardinality({u \in Uploads : Succeeded(u)})
  /\ \A u \in Uploads :
       Succeeded(u) => Cardinality(ManifestsOf(up[u].fileId)) = 1
  /\ \A u, v \in WithFile :
       (u # v /\ up[u].pc # "idle" /\ up[v].pc # "idle")
       => up[u].fileId # up[v].fileId

\* two requests with the same bytes both succeeded: two manifests that
\* agree on content, digest list and content digest
C8_Witness ==
  /\ Cardinality(filesTable) = 2
  /\ \A m1, m2 \in filesTable :
       /\ m1.chunkHashes = m2.chunkHashes
       /\ m1.contentHash = m2.contentHash
       /\ Len(m1.chunkHashes) = 2

C9_State ==
  /\ \A i \in chunksTable :
       /\ Cardinality(RecordsOf(i.hash)) = 1
       /\ Cardinality({u \in Uploads : i.hash \in up[u].h_inserted}) <= 1
  /\ \A u \in Uploads :
       /\ \A d \in up[u].h_conflict :
            /\ \E v \in Uploads \ {u} : d \in up[v].h_inserted
            /\ d \notin up[u].h_inserted
            /\ RecordsOf(d) # {}
       /\ (up[u].h_conflict # {} /\ up[u].pc = "done" /\ ~IOFault(u))
            => Succeeded(u)

C9_Step ==
  \A u \in Uploads :
    up'[u].h_conflict # up[u].h_conflict
    => /\ chunksTable' = chunksTable
       /\ up'[u].uploadedNewChunks = up[u].uploadedNewChunks + 1
       /\ up'[u].reusedChunks = up[u].reusedChunks
       /\ up'[u].chunkHashes = Append(up[u].chunkHashes, up[u].chunkHash)
       /\ up'[u].h_failed = up[u].h_failed
       /\ up'[u].res = up[u].res

(* C9: of the conditional inserts for one digest exactly one takes effect: *)
(* the chunks table holds one item per digest, created by one request. A   *)
(* request whose insert meets the condition failure had found the digest   *)
(* absent, lost to another request's insert, leaves the table unchanged,   *)
(* surfaces nothing, counts the chunk as new and lists its digest; with no *)
(* I/O failure of its own it is answered 200.                              *)
C9_RaceLoser == [](C9_State) /\ [][C9_Step]_vars

\* a request lost the race on a digest and was answered 200
C9_Witness ==
  \E u \in Uploads :
    /\ up[u].h_conflict # {}
    /\ Succeeded(u)
    /\ up[u].res.uploadedNewChunks >= 1

(* C10: a request with an empty file never calls the chunks table or the   *)
(* bucket; with no I/O failure it is answered 200 with chunks,             *)
(* uploadedNewChunks and reusedChunks all 0, and its manifest has an empty *)
(* digest list, size 0 and the digest of zero bytes.                       *)
C10_EmptyStream ==
  \A u \in WithFile :
    file[u].bytes = <<>>
    => /\ up[u].h_chunks = <<>>
       /\ up[u].h_gets = 0
       /\ up[u].h_s3puts = 0
       /\ up[u].h_inserted = {} /\ up[u].h_conflict = {}
       /\ ~up[u].h_indexError
       /\ up[u].pc \notin {"get", "s3", "put"}
       /\ (up[u].pc = "done" /\ ~IOFault(u))
            => /\ Succeeded(u)
               /\ up[u].res.chunks = 0
               /\ up[u].res.uploadedNewChunks = 0
               /\ up[u].res.reusedChunks = 0
               /\ up[u].res.size = 0
               /\ \E m \in filesTable :
                    /\ ManifestsOf(up[u].fileId) = {m}
                    /\ m.chunkHashes = <<>>
                    /\ m.size = 0
                    /\ m.contentHash = sha256Hex(<<>>)

\* a request with an empty file was answered 200 while the stores hold the
\* chunks of another request
C10_Witness ==
  \E u \in WithFile :
    /\ file[u].bytes = <<>>
    /\ Succeeded(u)
    /\ chunksTable # {}

----------------------------------------------------------------------------
\* the positions of request v's chunks whose digest is in the index when the
\* chunk is processed, given that u's chunks are there: the digest is one of
\* u's, or of an earlier chunk of v
KnownPositions(u, v) ==
  LET a == RefDigests(file[u].bytes)
      b == RefDigests(file[v].bytes)
  IN {i \in DOMAIN b :
        b[i] \in Range(a) \/ \E j \in 1..(i - 1) : b[j] = b[i]}

(* C11: when request v arrives after request u was answered 200, they are  *)
(* the only requests with a file and no I/O call fails, then once v is     *)
(* answered 200: reusedChunks is the number of v's chunks whose digest u   *)
(* or an earlier chunk of v had put in the index, uploadedNewChunks is the *)
(* number of the others, and v's manifest lists the digests of v's chunks  *)
(* in order, equal to u's digest at each position where the two files have *)
(* the same chunk and different from it where they have different chunks.  *)
C11_PartialReuse ==
  \A u, v \in WithFile :
    (/\ WithFile = {u, v}
     /\ u \in up[v].h_after
     /\ NoIOFault
     /\ Succeeded(v))
    => LET ca == FixedChunks(file[u].bytes)
           cb == FixedChunks(file[v].bytes)
           known == KnownPositions(u, v)
       IN /\ up[v].res.reusedChunks = Cardinality(known)
          /\ up[v].res.uploadedNewChunks = Len(cb) - Cardinality(known)
          /\ up[v].res.chunks = Len(cb)
          /\ \E ma \in ManifestsOf(up[u].fileId), mb \in ManifestsOf(up[v].fileId) :
               /\ mb.chunkHashes = RefDigests(file[v].bytes)
               /\ Len(ma.chunkHashes) = Len(ca)
               /\ \A i \in 1..Min(Len(ca), Len(cb)) :
                    (ca[i] = cb[i]) <=> (mb.chunkHashes[i] = ma.chunkHashes[i])

\* after <<1,2,1,2>> was stored, <<1,2,2>> was uploaded: its first chunk is
\* reused, its tail is new
C11_Witness ==
  \E u, v \in WithFile :
    /\ u \in up[v].h_after
    /\ file[u].bytes = <<1, 2, 1, 2>>
    /\ file[v].bytes = <<1, 2, 2>>
    /\ NoIOFault
    /\ Succeeded(v)
    /\ up[v].res.reusedChunks = 1
    /\ up[v].res.uploadedNewChunks = 1

----------------------------------------------------------------------------
\* the step of request u in which its GetItem returns while the chunks table
\* holds the digest
C12_Step ==
  \A u \in Uploads :
    (/\ up[u].pc = "get"
     /\ up'[u].h_gets = up[u].h_gets + 1
     /\ RecordsOf(up[u].chunkHash) # {})
    => /\ chunksTable' = chunksTable
       /\ bucket' = bucket
       /\ up'[u].h_s3puts = up[u].h_s3puts
       /\ up'[u].h_inserted = up[u].h_inserted
       /\ up'[u].h_conflict = up[u].h_conflict
       /\ up'[u].pc \notin {"s3", "put"}
       /\ \/ \* the GetItem threw: the callback is over, nothing is counted
             /\ up'[u].pc = "done"
             /\ up'[u].chunkHashes = up[u].chunkHashes
             /\ up'[u].reusedChunks = up[u].reusedChunks
             /\ up'[u].uploadedNewChunks = up[u].uploadedNewChunks
          \/ \* it returned the item: the chunk is reused
             /\ up'[u].reusedChunks = up[u].reusedChunks + 1
             /\ up'[u].uploadedNewChunks = up[u].uploadedNewChunks
             /\ up'[u].chunkHashes = Append(up[u].chunkHashes, up[u].chunkHash)

(* C12: when the GetItem of ensureChunkStored finds the chunk's digest in  *)
(* the chunks table, the processing of that chunk sends no PutObject and   *)
(* no PutItem: the chunks table and the bucket are unchanged by it, and    *)
(* the chunk is counted in reusedChunks (unless the GetItem itself threw). *)
C12_ReusedPath == [][C12_Step]_vars

\* a request was answered 200 with both its chunks reused and has sent no
\* PutObject and created no item
C12_Witness ==
  \E u \in WithFile :
    /\ Succeeded(u)
    /\ up[u].res.reusedChunks = 2
    /\ up[u].h_s3puts = 0
    /\ up[u].h_inserted = {}
    /\ up[u].h_conflict = {}

----------------------------------------------------------------------------
(* C13: the PutItem of a chunk is sent only after the PutObject of that    *)
(* chunk has succeeded: a request waiting for its PutItem has its chunk in *)
(* the bucket, and in every reachable state every digest that has an item  *)
(* in the chunks table has its object in the bucket, holding as many bytes *)
(* as the item records and the bytes the digest is the digest of.          *)
C13_BlobBeforeRecord ==
  /\ \A u \in Uploads :
       up[u].pc = "put"
       => /\ BlobsOf(up[u].chunkHash) =
               {[Key |-> s3KeyOf(up[u].chunkHash), Body |-> up[u].chunk]}
          /\ up[u].item.hash = up[u].chunkHash
  /\ \A i \in chunksTable :
       /\ Cardinality(BlobsOf(i.hash)) = 1
       /\ i.s3Key = s3KeyOf(i.hash)
       /\ \A o \in BlobsOf(i.hash) :
            Len(o.Body) = i.size /\ sha256Hex(o.Body) = i.hash

\* a request waits for its PutItem of a digest that another request has
\* inserted in the meantime
C13_Witness ==
  \E u, v \in Uploads :
    /\ u # v
    /\ up[u].pc = "put"
    /\ up[u].chunkHash \in up[v].h_inserted
    /\ RecordsOf(up[u].chunkHash) # {}

----------------------------------------------------------------------------
\* request u is inside ensureChunkStored, suspended in one of its awaits
InEnsure(u) == up[u].pc \in {"get", "s3", "put"}

C14_State ==
  \A u \in WithFile :
    LET ref == RefDigests(file[u].bytes)
        started == Len(up[u].h_chunks)
        finished == Len(up[u].chunkHashes)
    IN \* a callback that awaits holds the stream paused (or ended)
       /\ InEnsure(u) <=> up[u].handler # "none"
       /\ InEnsure(u) => up[u].rs # "flowing"
       \* one chunk at a time
       /\ started - finished \in {0, 1}
       /\ InEnsure(u) => started = finished + 1
       \* byte-offset order
       /\ started <= Len(ref)
       /\ \A i \in 1..finished : up[u].chunkHashes[i] = ref[i]
       \* the tail chunk comes after every full chunk
       /\ (up[u].handler = "end" /\ InEnsure(u))
            => /\ finished = Len(file[u].bytes) \div CHUNK_SIZE
               /\ Len(up[u].chunk) = Len(file[u].bytes) % CHUNK_SIZE
               /\ started = Len(ref)

C14_Step ==
  \A u \in WithFile :
    \* a data or end callback starts only when no callback of u is awaiting
    /\ (\/ up'[u].pos # up[u].pos
        \/ (up'[u].rs = "ended" /\ up[u].rs # "ended"))
         => /\ up[u].handler = "none"
            /\ ~InEnsure(u)
            /\ up[u].rs = "flowing"
    \* ensureChunkStored is called for the next chunk once all before it
    \* have returned
    /\ up'[u].h_chunks # up[u].h_chunks
         => /\ Len(up'[u].h_chunks) = Len(up[u].h_chunks) + 1
            /\ Len(up'[u].chunkHashes) = Len(up[u].h_chunks)
    \* the digest list grows at its end, by the digest of the next chunk
    /\ up'[u].chunkHashes # up[u].chunkHashes
         => up'[u].chunkHashes =
              Append(up[u].chunkHashes,
                     RefDigests(file[u].bytes)[Len(up[u].chunkHashes) + 1])

(* C14: each request is one sequential pipeline whatever the other         *)
(* requests do: at most one of its chunks is inside ensureChunkStored, a   *)
(* data or end callback starts only when no callback of the request is     *)
(* awaiting (the stream is not flowing while one awaits), the end callback *)
(* stores the tail after every full chunk was processed, and the digests   *)
(* are appended in the order of the chunks' byte offsets.                  *)
C14_SequentialPipeline == [](C14_State) /\ [][C14_Step]_vars

\* one request stores its tail in the end callback while the data callback
\* of the other, holding a second full chunk, awaits its PutItem
C14_Witness ==
  \E u, v \in WithFile :
    /\ up[u].handler = "end" /\ up[u].pc = "s3"
    /\ Len(up[u].chunkHashes) = 1
    /\ up[v].handler = "data" /\ up[v].pc = "put"
    /\ Len(up[v].buffered) = CHUNK_SIZE

----------------------------------------------------------------------------
\* request u, already answered with a failure, sends a PutObject or a
\* PutItem of ensureChunkStored in this step
C15_SendsAfterFailure(u) ==
  /\ Failed(u)
  /\ up'[u].pc # up[u].pc
  /\ up'[u].pc \in {"s3", "put"}

(* C15: once a request has been answered with a failure (500), also when   *)
(* the failure is a stream 'error' that arrived while its data callback    *)
(* awaited a store or index call, the request sends no further PutObject   *)
(* to the bucket and no further PutItem to the chunks table.               *)
C15_FailureAborts == [][\A u \in Uploads : ~C15_SendsAfterFailure(u)]_vars

----------------------------------------------------------------------------
C16_Step ==
  \* an item of the chunks table stays, with the same size, s3Key and
  \* createdAt, and stays the only item of its digest
  /\ chunksTable \subseteq chunksTable'
  /\ \A i \in chunksTable : \A j \in chunksTable' : j.hash = i.hash => j = i
  \* an object of the bucket stays, with the same body
  /\ bucket \subseteq bucket'
  /\ \A o \in bucket : \A q \in bucket' : q.Key = o.Key => q = o
  \* a manifest stays as it was written
  /\ filesTable \subseteq filesTable'
  /\ \A m \in filesTable : \A n \in filesTable' : n.fileId = m.fileId => n = m

(* C16: no step of any request, whether it read the digest as absent and   *)
(* lost the race, or has failed, changes or removes an item of the chunks  *)
(* table (size, s3Key and createdAt stay as first written); no object of   *)
(* the bucket and no manifest is removed or changed: the three stores only *)
(* grow.                                                                   *)
C16_WriteOnce == [][C16_Step]_vars

\* a request sent a PutItem for a digest that another request had inserted,
\* with an item that differs from the stored one, and the stored one is
\* still there; the request that inserted it has failed since
C16_Witness ==
  \E u, v \in Uploads :
    /\ up[v].item.hash \in up[v].h_conflict
    /\ up[v].item.hash \in up[u].h_inserted
    /\ RecordsOf(up[v].item.hash) # {}
    /\ up[v].item \notin chunksTable
    /\ Failed(u)

----------------------------------------------------------------------------
(* C17: in every reachable state, under every interleaving and with every  *)
(* I/O call allowed to fail, each digest listed in a manifest of the files *)
(* table has an object in the bucket, whose body has that digest: the file *)
(* can be rebuilt from the bucket.                                         *)
C17_ManifestBlobsPresent ==
  \A m \in filesTable :
    \A i \in DOMAIN m.chunkHashes :
      /\ BlobsOf(m.chunkHashes[i]) # {}
      /\ \A o \in BlobsOf(m.chunkHashes[i]) : sha256Hex(o.Body) = m.chunkHashes[i]

\* a manifest of two chunks is persisted whose request had a PutItem on the
\* chunks table fail, and a digest it lists has no item in the chunks table
C17_Witness ==
  \E m \in filesTable : \E u \in WithFile :
    /\ m.fileId = up[u].fileId
    /\ Len(m.chunkHashes) = 2
    /\ up[u].h_indexError
    /\ \E i \in DOMAIN m.chunkHashes : RecordsOf(m.chunkHashes[i]) = {}

(* C18: in every reachable state, also when a PutItem on the chunks table  *)
(* can fail, each digest listed in a manifest of the files table has an    *)
(* item in the chunks table.                                               *)
C18_ManifestDigestsIndexed ==
  \A m \in filesTable :
    \A i \in DOMAIN m.chunkHashes : RecordsOf(m.chunkHashes[i]) # {}

(* C19: at every point of a request uploadedNewChunks + reusedChunks is    *)
(* the number of digests pushed to chunkHashes so far, and for every       *)
(* request answered 200 the response has uploadedNewChunks + reusedChunks  *)
(* = chunks = the length of the digest list of its manifest in the files   *)
(* table.                                                                  *)
C19_ExactAccounting ==
  \A u \in Uploads :
    /\ up[u].uploadedNewChunks + up[u].reusedChunks = Len(up[u].chunkHashes)
    /\ Succeeded(u)
         => /\ up[u].res.uploadedNewChunks + up[u].res.reusedChunks
                 = up[u].res.chunks
            /\ ManifestsOf(up[u].fileId) # {}
            /\ \A m \in ManifestsOf(up[u].fileId) :
                 Len(m.chunkHashes) = up[u].res.chunks

\* one request was answered 200 with a new and a reused chunk while the
\* other is in the middle of its second chunk
C19_Witness ==
  \E u, v \in WithFile :
    /\ Succeeded(u)
    /\ up[u].res.uploadedNewChunks = 1
    /\ up[u].res.reusedChunks = 1
    /\ InEnsure(v)
    /\ up[v].uploadedNewChunks + up[v].reusedChunks = 1

----------------------------------------------------------------------------
Responded(u) == up[u].res.status # 0

\* a response, once sent, is the only one
C20_Step ==
  \A u \in Uploads : up'[u].res # up[u].res => ~Responded(u)

\* a 200 is sent after the manifest was written; a request with a file is
\* answered 200 or 500
C20_State ==
  \A u \in WithFile :
    /\ Succeeded(u) => ManifestsOf(up[u].fileId) # {}
    /\ Responded(u) => (Succeeded(u) \/ Failed(u)) /\ up[u].promise # "pending"

(* C20: when every pending store or index call returns or throws in the    *)
(* end and the stream delivers or fails in the end, every request with a   *)
(* file that has arrived is answered in the end, exactly once: with 200    *)
(* after its manifest was written, or with 500.  The promise around the    *)
(* stream callbacks is settled in the end, also when the failure happens   *)
(* while the stream is paused.                                             *)
C20_Responds ==
  /\ \A u \in Uploads :
       (file[u].present /\ up[u].pc # "idle") ~> Responded(u)
  /\ \A u \in Uploads :
       (up[u].promise = "pending") ~> (up[u].promise \in {"resolved", "rejected"})
  /\ [](C20_State)
  /\ [][C20_Step]_vars

\* one request was answered 500 for a stream error that arrived while its
\* data callback awaited, and that callback has since stored a chunk and
\* ended; another was answered 500 for a GetItem that threw, its stream
\* left paused
C20_Witness ==
  \E u, v \in WithFile :
    /\ Failed(u) /\ up[u].h_failed = "stream read"
    /\ up[u].pc = "done" /\ up[u].h_s3puts >= 1
    /\ Failed(v) /\ up[v].h_failed = "index read"
    /\ up[v].rs = "paused"

====
